---- MODULE Spec2Model ----
(***************************************************************************)
(* TuneX music server (src/server.py): the resolved-URL cache, the         *)
(* single-flight coordination of fetch_stream, the background prefetch,    *)
(* the related-list cache and the per-user store.                          *)
(*                                                                         *)
(* Scheduling: one asyncio event loop.  A coroutine runs without           *)
(* interruption from one await to the next, so every action below is the   *)
(* code between two suspension points.  The suspension points are          *)
(* `await event.wait()` (server.py:188) and `await _run(...)`              *)
(* (server.py:197, 211, 236).                                              *)
(***************************************************************************)
EXTENDS Integers, Sequences, FiniteSets, TLC

VARIABLES
    now,             \* time.time(), in seconds
    ticks,           \* number of clock advances so far (bounded)
    audioUrlCache,   \* _audio_url_cache   : video_id -> [url, ts] or NoEntry
    trackInfoCache,  \* _track_info_cache  : video_id -> [info, ts] or NoEntry
    inflight,        \* _audio_url_inflight: video_id -> the Event registered, or NoTask
    eventSet,        \* the asyncio.Event objects that have been set
    tasks,           \* the coroutines: stream_audio requests and _prefetch_one tasks
    ntasks,          \* number of coroutines created so far
    calls,           \* number of _sync_audio_url executions submitted so far
    users,           \* user_data/<username>.json : username -> UserRecord
    relatedCache,    \* _related_cache     : video_id -> [related, ts] or NoEntry
    rtasks,          \* the fetch_related coroutines
    rcalls,          \* number of _sync_related executions submitted so far
    plays,           \* the ids given to record_play so far, oldest first
    reqs,            \* the requests on the per-user store, in order of arrival
    oplog            \* the requests that saved a UserRecord, in order of their save

vars == <<now, ticks, audioUrlCache, trackInfoCache, inflight, eventSet, tasks,
          ntasks, calls, users, relatedCache, rtasks, rcalls, plays, reqs, oplog>>

streamVars == <<audioUrlCache, trackInfoCache, inflight, eventSet, tasks, ntasks, calls>>
relatedVars == <<relatedCache, rtasks, rcalls>>
storeVars == <<reqs, oplog>>

-----------------------------------------------------------------------------
(* Bounds of the model *)

MaxTasks == 3
MaxTicks == 2
MaxPlays == 4
MaxLookups == 3

(* Program constants *)

AUDIO_URL_TTL == 60 * 60 * 4
RELATED_CACHE_TTL == 60 * 60
HISTORY_CAP == 200
PREFETCH_LIMIT == 3

VideoIds == {"A", "B"}
Usernames == {"alice"}
TaskIds == 1 .. MaxTasks
NoTask == 0
NoEntry == [ts |-> -1]

Min(a, b) == IF a < b THEN a ELSE b

-----------------------------------------------------------------------------
(* Per-user store *)

EmptyUser == [history |-> <<>>, search_cache |-> <<>>, liked |-> <<>>, playlists |-> <<>>]

Take(s, n) == SubSeq(s, 1, Min(n, Len(s)))

(* record_play: drop the entries with the track's id, insert the track at the
   front, keep the first 200. *)
RecordPlayNoDedup(history, track) == Take(<<track>> \o history, HISTORY_CAP)

RecordPlay(history, track) ==
    Take(<<track>> \o SelectSeq(history, LAMBDA t : t.id # track.id), HISTORY_CAP)

-----------------------------------------------------------------------------
(* fetch_stream *)

(* `cached and (time.time() - cached["ts"]) < TTL` *)
IsFreshInclusive(entry, t, ttl) == entry # NoEntry /\ (t - entry.ts) <= ttl

IsFresh(entry, t, ttl) == entry # NoEntry /\ (t - entry.ts) < ttl

(* `video_id in _audio_url_inflight` *)
NeverJoins(v) == FALSE

HasInflight(v) == inflight[v] # NoTask

(* `_audio_url_inflight.pop(video_id, None)` in the finally block *)
ReleaseTokenForgotten(v) == inflight

ReleaseToken(v) == [inflight EXCEPT ![v] = NoTask]

(* prefetch_next: `for vid in video_ids[:3]: if vid not in _audio_url_cache` *)
PrefetchLaunch(cache, hintIds) ==
    SelectSeq(Take(hintIds, PREFETCH_LIMIT), LAMBDA v : cache[v] = NoEntry)

(* `finally: event.set()`: the Event of attempt t wakes those waiting on it *)
SetEventForgotten(t) == eventSet

SetEvent(t) == eventSet \cup {t}

NoResult == [status |-> "none", url |-> 0, info |-> 0, src |-> "none", age |-> 0]

IdleTask == [kind |-> "none", vid |-> "A", user |-> "alice", hints |-> <<>>, pc |-> "idle",
             waitOn |-> NoTask, callNo |-> 0, res |-> NoResult, out |-> "none"]

Track(v, info) == [id |-> v, info |-> info]

(* _prefetch_one: `except Exception: pass` *)
PrefetchOutcomeSurfaced(res) == IF res.status = "fail" THEN "raised" ELSE "silent"

PrefetchOutcome(res) == "silent"

(* stream_audio after fetch_stream: the response, or HTTP 500 *)
StreamOutcome(res) == IF res.status = "ok" THEN "200" ELSE "500"

(* What follows the return of fetch_stream in task t (res is its value, or its
   failure), with n coroutines created so far and the resolved-URL cache `cache`:
   _prefetch_one swallows the failure; stream_audio records the play, creates the
   prefetch tasks (prefetch_next does not suspend) and answers. *)
Spawned(tk, n, t, cache) ==
    LET launch == PrefetchLaunch(cache, tk[t].hints)
    IN  [i \in TaskIds |->
            IF i > n /\ i <= n + Len(launch)
            THEN [IdleTask EXCEPT !.kind = "prefetch", !.vid = launch[i - n],
                                  !.pc = "spawned"]
            ELSE tk[i]]

AfterFetch(tk, n, t, res, cache) ==
    LET done == [tk EXCEPT ![t].pc = "done", ![t].res = res,
                           ![t].out = IF tk[t].kind = "prefetch"
                                      THEN PrefetchOutcome(res)
                                      ELSE StreamOutcome(res)]
    IN  IF tk[t].kind = "stream" /\ res.status = "ok"
        THEN /\ users' = [users EXCEPT ![tk[t].user].history =
                                            RecordPlay(@, Track(tk[t].vid, res.info))]
             /\ tasks' = Spawned(done, n, t, cache)
             /\ ntasks' = n + Len(PrefetchLaunch(cache, tk[t].hints))
        ELSE /\ users' = users
             /\ tasks' = done
             /\ ntasks' = n

(* The value fetch_stream returns from the caches (lines 183-184 and 191-192). *)
CachedResult(v, src) ==
    [status |-> "ok", url |-> audioUrlCache[v].url,
     info |-> IF trackInfoCache[v] # NoEntry THEN trackInfoCache[v].info ELSE 0,
     src |-> src, age |-> now - audioUrlCache[v].ts]

(* Lines 194-197: a new Event is registered and _sync_audio_url is submitted. *)
BeginAttempt(tk, n, t) ==
    /\ tasks' = [tk EXCEPT ![t].pc = "calling", ![t].callNo = calls + 1]
    /\ inflight' = [inflight EXCEPT ![tk[t].vid] = t]
    /\ calls' = calls + 1
    /\ ntasks' = n
    /\ UNCHANGED users

(* fetch_stream from its first line to its first suspension point or its return. *)
FetchBegin(tk, n, t) ==
    LET v == tk[t].vid IN
    IF IsFresh(audioUrlCache[v], now, AUDIO_URL_TTL)
    THEN /\ AfterFetch(tk, n, t, CachedResult(v, "hit"), audioUrlCache)
         /\ UNCHANGED <<inflight, calls>>
    ELSE IF HasInflight(v)
    THEN /\ tasks' = [tk EXCEPT ![t].pc = "waiting", ![t].waitOn = inflight[v]]
         /\ ntasks' = n
         /\ UNCHANGED <<inflight, calls, users>>
    ELSE BeginAttempt(tk, n, t)

(* GET /api/stream/{video_id}?next_ids=h : a new request starts. *)
StreamBegin(v, u, h) ==
    /\ LET t == ntasks + 1
           tk == [tasks EXCEPT ![t] = [IdleTask EXCEPT !.kind = "stream", !.vid = v,
                                                       !.user = u, !.hints = h]]
       IN  FetchBegin(tk, t, t)
    /\ UNCHANGED <<now, ticks, audioUrlCache, trackInfoCache, eventSet>>
    /\ UNCHANGED <<relatedVars, plays, storeVars>>

(* The coroutines that the requests still running may create. *)
RECURSIVE Reserved(_)
Reserved(n) ==
    IF n = 0 THEN 0
    ELSE Reserved(n - 1)
         + (IF tasks[n].kind = "stream" /\ tasks[n].pc # "done"
            THEN Min(Len(tasks[n].hints), PREFETCH_LIMIT) ELSE 0)

StreamStart(v, u, h) ==
    /\ ntasks + Reserved(ntasks) + 1 + Min(Len(h), PREFETCH_LIMIT) <= MaxTasks
    /\ StreamBegin(v, u, h)

(* A task created by prefetch_next gets its first turn: _prefetch_one calls
   fetch_stream. *)
PrefetchStart(t) ==
    /\ tasks[t].pc = "spawned"
    /\ FetchBegin(tasks, ntasks, t)
    /\ UNCHANGED <<now, ticks, audioUrlCache, trackInfoCache, eventSet>>
    /\ UNCHANGED <<relatedVars, plays, storeVars>>

(* Lines 188-197: the Event a caller waits on has been set; it resumes, returns
   what the cache holds (no TTL test here), or else starts an attempt itself. *)
Wake(t) ==
    /\ tasks[t].pc = "waiting"
    /\ tasks[t].waitOn \in eventSet
    /\ LET v == tasks[t].vid IN
       IF audioUrlCache[v] # NoEntry
       THEN /\ AfterFetch(tasks, ntasks, t, CachedResult(v, "joined"), audioUrlCache)
            /\ UNCHANGED <<inflight, calls>>
       ELSE BeginAttempt(tasks, ntasks, t)
    /\ UNCHANGED <<now, ticks, audioUrlCache, trackInfoCache, eventSet>>
    /\ UNCHANGED <<relatedVars, plays, storeVars>>

(* Lines 197-203: _sync_audio_url returns (url, track_info): both caches are
   filled, the value is returned; finally the Event is set and the token popped. *)
CallSucceeds(t) ==
    /\ tasks[t].pc = "calling"
    /\ LET v == tasks[t].vid
           c == tasks[t].callNo
           res == [status |-> "ok", url |-> c, info |-> c, src |-> "own", age |-> 0]
           cache == [audioUrlCache EXCEPT ![v] = [url |-> c, ts |-> now]]
       IN  /\ audioUrlCache' = cache
           /\ trackInfoCache' = [trackInfoCache EXCEPT ![v] = [info |-> c, ts |-> now]]
           /\ AfterFetch(tasks, ntasks, t, res, cache)
           /\ eventSet' = SetEvent(t)
           /\ inflight' = ReleaseToken(v)
    /\ UNCHANGED <<now, ticks, calls>>
    /\ UNCHANGED <<relatedVars, plays, storeVars>>

(* Lines 197, 201-203: _sync_audio_url raises (ValueError, DownloadError): nothing
   is cached; finally the Event is set and the token popped; the failure goes to
   the caller of fetch_stream. *)
CallFails(t) ==
    /\ tasks[t].pc = "calling"
    /\ LET v == tasks[t].vid
           res == [status |-> "fail", url |-> 0, info |-> 0, src |-> "own", age |-> 0]
       IN  /\ AfterFetch(tasks, ntasks, t, res, audioUrlCache)
           /\ eventSet' = SetEvent(t)
           /\ inflight' = ReleaseToken(v)
    /\ UNCHANGED <<now, ticks, calls, audioUrlCache, trackInfoCache>>
    /\ UNCHANGED <<relatedVars, plays, storeVars>>

(* A coroutine that can run now: the loop runs these before it sleeps. *)
Runnable(t) ==
    \/ tasks[t].pc = "spawned"
    \/ tasks[t].pc = "waiting" /\ tasks[t].waitOn \in eventSet

(* The clock advances while the event loop is idle. *)
TickSteps == {1, AUDIO_URL_TTL - 1}

Tick(d) ==
    /\ ticks < MaxTicks
    /\ \A t \in TaskIds : ~Runnable(t)
    /\ now' = now + d
    /\ ticks' = ticks + 1
    /\ UNCHANGED <<streamVars, users, relatedVars, plays, storeVars>>

(* next_ids of the requests of Spec: no hint, or one *)
HintLists == {<<>>} \cup {<<v>> : v \in VideoIds}

Init ==
    /\ now = 0
    /\ ticks = 0
    /\ audioUrlCache = [v \in VideoIds |-> NoEntry]
    /\ trackInfoCache = [v \in VideoIds |-> NoEntry]
    /\ inflight = [v \in VideoIds |-> NoTask]
    /\ eventSet = {}
    /\ tasks = [t \in TaskIds |-> IdleTask]
    /\ ntasks = 0
    /\ calls = 0
    /\ users = [u \in Usernames |-> EmptyUser]
    /\ relatedCache = [v \in VideoIds |-> NoEntry]
    /\ rtasks = <<>>
    /\ rcalls = 0
    /\ reqs = <<>>
    /\ oplog = <<>>
    /\ plays = <<>>

(* C7: prefetch_next(hints) creates a task for exactly those of the first three
   hints that have no fresh entry (now - inserted_at < AUDIO_URL_TTL) in the
   resolved-URL cache, in order, and none for a later hint. *)
C7_PrefetchUnlessFresh ==
    [][\A s \in TaskIds :
          (tasks'[s].kind = "stream" /\ tasks[s].pc # "done" /\ tasks'[s].pc = "done"
             /\ tasks'[s].res.status = "ok") =>
          LET base == IF tasks[s].pc = "idle" THEN ntasks + 1 ELSE ntasks
              first == Take(tasks'[s].hints, 3)
              stale == {v \in VideoIds : audioUrlCache'[v] = NoEntry
                                          \/ now - audioUrlCache'[v].ts >= AUDIO_URL_TTL}
              want == SelectSeq(first, LAMBDA v : v \in stale)
          IN  /\ ntasks' = base + Len(want)
              /\ \A i \in 1 .. Len(want) :
                    /\ tasks'[base + i].kind = "prefetch"
                    /\ tasks'[base + i].vid = want[i]]_vars

Next ==
    \/ \E v \in VideoIds, u \in Usernames, h \in HintLists : StreamStart(v, u, h)
    \/ \E t \in TaskIds : PrefetchStart(t)
    \/ \E t \in TaskIds : Wake(t)
    \/ \E t \in TaskIds : CallSucceeds(t)
    \/ \E t \in TaskIds : CallFails(t)
    \/ \E d \in TickSteps : Tick(d)

Spec == Init /\ [][Next]_vars

-----------------------------------------------------------------------------
(* Properties of fetch_stream, checked under Spec *)

Calling(v) == {t \in TaskIds : tasks[t].pc = "calling" /\ tasks[t].vid = v}

FailedCall(v) == \E t \in TaskIds : tasks[t].vid = v /\ tasks[t].res.status = "fail"

Joined(t) == tasks[t].waitOn # NoTask

Starts(t) == tasks[t].pc \in {"idle", "spawned"} /\ tasks'[t].pc \notin {"idle", "spawned"}

CallEnds(t) == tasks[t].pc = "calling" /\ tasks'[t].pc = "done"

(* C1: in every reachable state, for every video id, at most one execution of
   the external resolve call is underway. *)
C1_AtMostOneCallPerId == \A v \in VideoIds : Cardinality(Calling(v)) <= 1

(* C2: for an id whose resolve calls have all succeeded, the callers that arrive
   while an attempt is in flight join it: at most one call is underway, no caller
   that joined invokes the call itself, and each returns the (audio_url, track_info)
   pair the joined attempt's call produced. *)
C2_SingleFlightOnSuccess ==
    \A v \in VideoIds : ~FailedCall(v) =>
        /\ Cardinality(Calling(v)) <= 1
        /\ \A t \in TaskIds : (tasks[t].vid = v /\ Joined(t)) =>
              /\ tasks[t].callNo = 0
              /\ tasks[t].pc = "done" =>
                    /\ tasks[tasks[t].waitOn].pc = "done"
                    /\ tasks[t].res.status = "ok"
                    /\ tasks[t].res.url = tasks[tasks[t].waitOn].callNo
                    /\ tasks[t].res.info = tasks[tasks[t].waitOn].callNo
                    /\ tasks[tasks[t].waitOn].res.url = tasks[t].res.url
                    /\ tasks[tasks[t].waitOn].res.info = tasks[t].res.info

(* Three callers of one id, one call: the first started the attempt, the other two
   joined it and returned its pair. *)
C2_Witness ==
    \E o, t1, t2 \in TaskIds :
        /\ t1 # t2
        /\ tasks[o].pc = "done" /\ tasks[o].res.src = "own" /\ tasks[o].res.status = "ok"
        /\ \A t \in {t1, t2} :
              /\ tasks[t].waitOn = o /\ tasks[t].pc = "done"
              /\ tasks[t].res.url = tasks[o].callNo
        /\ calls = 1

(* C3: when the call of an in-flight attempt fails, every caller that joined its
   token receives that failure and does not itself invoke the call. *)
C3_WaitersReceiveFailure ==
    \A t \in TaskIds :
        (Joined(t) /\ tasks[tasks[t].waitOn].res.status = "fail") =>
            /\ tasks[t].callNo = 0
            /\ tasks[t].pc = "done" => tasks[t].res.status = "fail"

(* C4: a caller that joined an in-flight token returns only the outcome of the
   attempt it joined or of a strictly later one, never an entry cached before. *)
C4_NoStaleValueForWaiter ==
    \A t \in TaskIds :
        (Joined(t) /\ tasks[t].pc = "done" /\ tasks[t].res.status = "ok") =>
            tasks[t].res.url >= tasks[tasks[t].waitOn].callNo

(* C5: with an entry stored at t0 and no token registered, a resolve at time t
   returns the cached URL without a call when t - t0 < AUDIO_URL_TTL, and submits
   a call when t - t0 >= AUDIO_URL_TTL. *)
C5_TtlHitAndExpiry ==
    [][\A t \in TaskIds : Starts(t) =>
          LET v == tasks'[t].vid
              e == audioUrlCache[v]
          IN  (e # NoEntry /\ inflight[v] = NoTask) =>
                 IF now - e.ts < AUDIO_URL_TTL
                 THEN /\ tasks'[t].pc = "done"
                      /\ tasks'[t].res.status = "ok"
                      /\ tasks'[t].res.url = e.url
                      /\ calls' = calls
                      /\ audioUrlCache' = audioUrlCache
                 ELSE /\ tasks'[t].pc = "calling"
                      /\ tasks'[t].callNo = calls + 1
                      /\ calls' = calls + 1]_vars

(* An entry stored at 0: a hit one second before the TTL, a call at the TTL. *)
C5_Witness ==
    \E h, c \in TaskIds :
        /\ tasks[h].vid = tasks[c].vid
        /\ audioUrlCache[tasks[h].vid] # NoEntry
        /\ audioUrlCache[tasks[h].vid].ts = 0
        /\ tasks[h].pc = "done" /\ tasks[h].res.src = "hit"
        /\ tasks[h].res.age = AUDIO_URL_TTL - 1
        /\ tasks[c].pc = "calling" /\ now = AUDIO_URL_TTL
        /\ calls = 2

(* C6: a resolve whose call fails inserts nothing into the two caches and leaves
   no token for the id; after a failure, a resolve that finds neither an entry
   nor a token submits the call again, and a call that succeeds is returned and
   cached. *)
C6_FailureNotCached ==
    [][\A t \in TaskIds :
          /\ (CallEnds(t) /\ tasks'[t].res.status = "fail") =>
                /\ audioUrlCache' = audioUrlCache
                /\ trackInfoCache' = trackInfoCache
                /\ inflight'[tasks[t].vid] = NoTask
          /\ (Starts(t) /\ FailedCall(tasks'[t].vid)
                /\ audioUrlCache[tasks'[t].vid] = NoEntry
                /\ inflight[tasks'[t].vid] = NoTask) =>
                /\ tasks'[t].pc = "calling"
                /\ calls' = calls + 1
          /\ (CallEnds(t) /\ tasks'[t].res.status = "ok") =>
                /\ tasks'[t].res.url = tasks[t].callNo
                /\ audioUrlCache'[tasks[t].vid].url = tasks[t].callNo
                /\ trackInfoCache'[tasks[t].vid].info = tasks[t].callNo]_vars

(* A failed resolve, then a later resolve of the same id whose call succeeded. *)
C6_Witness ==
    \E a, b \in TaskIds :
        /\ tasks[a].vid = tasks[b].vid
        /\ tasks[a].res.status = "fail"
        /\ ~Joined(b) /\ tasks[b].callNo > tasks[a].callNo
        /\ tasks[b].pc = "done" /\ tasks[b].res.status = "ok"
        /\ tasks[b].res.url = tasks[b].callNo
        /\ audioUrlCache[tasks[b].vid].url = tasks[b].callNo
        /\ inflight[tasks[b].vid] = NoTask

(* C17: the in-flight map holds a token for an id exactly while a resolve call
   for that id is underway, and the token is that of the attempt whose call is
   underway. *)
C17_TokenIffCallUnderway ==
    \A v \in VideoIds :
        /\ inflight[v] # NoTask <=> Calling(v) # {}
        /\ inflight[v] # NoTask => Calling(v) = {inflight[v]}

(* C8: a prefetch task never ends with an exception; the task that ends with a
   failed resolution changes no cache, no UserRecord and no request; a request
   whose resolution succeeded answers 200 in the step in which fetch_stream
   returns, while the tasks it created have not run yet, and its answer never
   changes afterwards. *)
C8_PrefetchFailureSwallowed ==
    [][\A t \in TaskIds :
          /\ (tasks'[t].kind = "prefetch" /\ tasks'[t].pc = "done") =>
                tasks'[t].out = "silent"
          /\ (tasks[t].kind = "prefetch" /\ tasks[t].pc # "done" /\ tasks'[t].pc = "done"
                /\ tasks'[t].res.status = "fail") =>
                /\ audioUrlCache' = audioUrlCache
                /\ trackInfoCache' = trackInfoCache
                /\ users' = users
                /\ \A s \in TaskIds : tasks[s].kind = "stream" => tasks'[s] = tasks[s]
          /\ (tasks'[t].kind = "stream" /\ tasks[t].pc # "done" /\ tasks'[t].pc = "done"
                /\ tasks'[t].res.status = "ok") =>
                /\ tasks'[t].out = "200"
                /\ \A i \in TaskIds : (i > ntasks /\ i <= ntasks' /\ i # t) =>
                      tasks'[i].pc = "spawned"
          /\ (tasks[t].kind = "stream" /\ tasks[t].pc = "done") => tasks'[t] = tasks[t]]_vars

(* A request answered 200 whose prefetch task failed: nothing cached for the
   hint, the history holds only the request's own track. *)
C8_Witness ==
    \E s, p \in TaskIds :
        /\ tasks[s].kind = "stream" /\ tasks[s].pc = "done" /\ tasks[s].out = "200"
        /\ tasks[s].hints = <<tasks[p].vid>> /\ tasks[p].vid # tasks[s].vid
        /\ tasks[p].kind = "prefetch" /\ tasks[p].pc = "done"
        /\ tasks[p].res.status = "fail" /\ tasks[p].out = "silent"
        /\ audioUrlCache[tasks[p].vid] = NoEntry
        /\ users[tasks[s].user].history = <<Track(tasks[s].vid, tasks[s].res.info)>>

-----------------------------------------------------------------------------
(* Termination of fetch_stream *)

(* The event loop gives every runnable coroutine a turn, and every call
   submitted to the thread pool comes back with a value or an exception. *)
Fairness ==
    \A t \in TaskIds :
        /\ WF_vars(PrefetchStart(t))
        /\ WF_vars(Wake(t))
        /\ WF_vars(CallSucceeds(t) \/ CallFails(t))

(* The clock passes the TTL once, while the event loop is idle: every entry
   cached before is expired afterwards. *)
Expire == ticks = 0 /\ Tick(AUDIO_URL_TTL)

LiveNext ==
    \/ \E v \in VideoIds, u \in Usernames, h \in HintLists : StreamStart(v, u, h)
    \/ \E t \in TaskIds : PrefetchStart(t)
    \/ \E t \in TaskIds : Wake(t)
    \/ \E t \in TaskIds : CallSucceeds(t)
    \/ \E t \in TaskIds : CallFails(t)
    \/ Expire

SpecLive == Init /\ [][LiveNext]_vars /\ Fairness

Pending(t) == tasks[t].pc \in {"spawned", "waiting", "calling"}

(* C21: when every resolve call comes back, every call of fetch_stream, by a
   request or a prefetch task, having started an attempt or joined one, ends
   with a value or a failure, and the in-flight map ends up empty. *)
C21_EveryCallReturns ==
    /\ \A t \in TaskIds : Pending(t) ~> tasks[t].pc = "done"
    /\ <>[](\A v \in VideoIds : inflight[v] = NoTask)

(* A request that joined an attempt which failed, and a prefetch task, have
   both ended, and no token is left. *)
C21_Witness ==
    \E s, p \in TaskIds :
        /\ tasks[s].kind = "stream" /\ tasks[s].pc = "done"
        /\ tasks[s].waitOn # NoTask
        /\ tasks[tasks[s].waitOn].res.status = "fail"
        /\ tasks[p].kind = "prefetch" /\ tasks[p].pc = "done"
        /\ \A t \in TaskIds : ~Pending(t)
        /\ \A v \in VideoIds : inflight[v] = NoTask

-----------------------------------------------------------------------------
(* fetch_related *)

NoLookup == [vid |-> "A", pc |-> "idle", failure |-> "none",
             res |-> [status |-> "none", related |-> <<>>, src |-> "none"]]

(* What _sync_related returns: no entry, or the tracks of the mix. *)
RelatedLists(c) == {<<>>, <<Track("R", c)>>}

(* `_related_cache[video_id] = {"related": related, "ts": time.time()}`; `by` is the
   lookup that stored the entry. *)
RelatedCachePut(v, related, t) ==
    [relatedCache EXCEPT ![v] = [related |-> related, ts |-> now, by |-> t]]

(* `except DownloadError: related = []`, then the entry is stored. *)
CacheAfterDownloadErrorSkipped(v, t) == relatedCache

CacheAfterDownloadError(v, t) == RelatedCachePut(v, <<>>, t)

(* Lines 207-211: a lookup starts; a fresh entry is returned, else _sync_related
   is submitted. *)
RelatedStart(v) ==
    /\ Len(rtasks) < MaxLookups
    /\ IF IsFresh(relatedCache[v], now, RELATED_CACHE_TTL)
       THEN /\ rtasks' = Append(rtasks, [NoLookup EXCEPT !.vid = v, !.pc = "done",
                                  !.res = [status |-> "ok",
                                           related |-> relatedCache[v].related,
                                           src |-> "hit"]])
            /\ rcalls' = rcalls
       ELSE /\ rtasks' = Append(rtasks, [NoLookup EXCEPT !.vid = v, !.pc = "calling"])
            /\ rcalls' = rcalls + 1
    /\ UNCHANGED <<now, ticks, streamVars, users, relatedCache, plays, storeVars>>

(* Lines 211, 214-215: _sync_related returns a list. *)
RelatedReturns(t, related) ==
    /\ rtasks[t].pc = "calling"
    /\ relatedCache' = RelatedCachePut(rtasks[t].vid, related, t)
    /\ rtasks' = [rtasks EXCEPT ![t].pc = "done",
                                ![t].res = [status |-> "ok", related |-> related,
                                            src |-> "own"]]
    /\ UNCHANGED <<now, ticks, streamVars, users, rcalls, plays, storeVars>>

(* Lines 212-215: _sync_related raises DownloadError. *)
RelatedDownloadError(t) ==
    /\ rtasks[t].pc = "calling"
    /\ relatedCache' = CacheAfterDownloadError(rtasks[t].vid, t)
    /\ rtasks' = [rtasks EXCEPT ![t].pc = "done", ![t].failure = "DownloadError",
                                ![t].res = [status |-> "ok", related |-> <<>>,
                                            src |-> "own"]]
    /\ UNCHANGED <<now, ticks, streamVars, users, rcalls, plays, storeVars>>

(* Line 211: _sync_related raises anything else; `except DownloadError` does not
   catch it, line 214 is not reached and the exception leaves fetch_related. *)
RelatedRaises(t) ==
    /\ rtasks[t].pc = "calling"
    /\ rtasks' = [rtasks EXCEPT ![t].pc = "done", ![t].failure = "other",
                                ![t].res = [status |-> "raised", related |-> <<>>,
                                            src |-> "own"]]
    /\ UNCHANGED <<now, ticks, streamVars, users, relatedCache, rcalls, plays, storeVars>>

RelatedTickSteps == {1, RELATED_CACHE_TTL - 1}

RelatedNext ==
    \/ \E v \in VideoIds : RelatedStart(v)
    \/ \E t \in 1 .. Len(rtasks) : \E r \in RelatedLists(t) : RelatedReturns(t, r)
    \/ \E t \in 1 .. Len(rtasks) : RelatedDownloadError(t)
    \/ \E t \in 1 .. Len(rtasks) : RelatedRaises(t)
    \/ \E d \in RelatedTickSteps : Tick(d)

SpecRelated == Init /\ [][RelatedNext]_vars

LookupStarts == Len(rtasks') = Len(rtasks) + 1

(* C9 as stated: whatever the kind of failure of the external related call, the
   lookup returns an empty list. *)
C9_AnyFailureGivesEmpty ==
    \A t \in 1 .. Len(rtasks) :
        (rtasks[t].pc = "done" /\ rtasks[t].failure # "none") =>
            /\ rtasks[t].res.status = "ok"
            /\ rtasks[t].res.related = <<>>

(* C9 amended: when the external related call fails with DownloadError, the
   lookup returns an empty list and stores it with the current time; a later
   lookup that finds this entry less than RELATED_CACHE_TTL old returns the empty
   list without a call.  A failure of another kind leaves fetch_related as an
   exception and stores nothing. *)
C9_DownloadErrorCachedEmpty ==
    [][/\ \A t \in 1 .. Len(rtasks) :
             (rtasks[t].pc = "calling" /\ rtasks'[t].pc = "done"
                /\ rtasks'[t].failure = "DownloadError") =>
                /\ rtasks'[t].res.status = "ok"
                /\ rtasks'[t].res.related = <<>>
                /\ relatedCache'[rtasks[t].vid] # NoEntry
                /\ relatedCache'[rtasks[t].vid].related = <<>>
                /\ relatedCache'[rtasks[t].vid].ts = now
       /\ \A t \in 1 .. Len(rtasks) :
             (rtasks[t].pc = "calling" /\ rtasks'[t].pc = "done"
                /\ rtasks'[t].failure = "other") =>
                /\ rtasks'[t].res.status = "raised"
                /\ relatedCache' = relatedCache
       /\ LookupStarts =>
             LET n == rtasks'[Len(rtasks')]
                 e == relatedCache[n.vid]
             IN  (e # NoEntry /\ rtasks[e.by].failure = "DownloadError"
                    /\ now - e.ts < RELATED_CACHE_TTL) =>
                    /\ n.pc = "done"
                    /\ n.res.status = "ok"
                    /\ n.res.related = <<>>
                    /\ rcalls' = rcalls]_vars

(* A lookup whose call failed with DownloadError, and a lookup one second before
   the TTL that returned the cached empty list: one call in all. *)
C9_Witness ==
    \E a, b \in 1 .. Len(rtasks) :
        /\ rtasks[a].failure = "DownloadError" /\ rtasks[a].vid = rtasks[b].vid
        /\ rtasks[b].pc = "done" /\ rtasks[b].res.src = "hit"
        /\ rtasks[b].res.related = <<>>
        /\ relatedCache[rtasks[a].vid].by = a
        /\ now - relatedCache[rtasks[a].vid].ts = RELATED_CACHE_TTL - 1
        /\ rcalls = 1

-----------------------------------------------------------------------------
(* record_play *)

PlayIds == {1, 2, HISTORY_CAP, HISTORY_CAP + 1}

(* The history after the ids 1 .. n have been played in this order. *)
PlayedUpTo(n) == [i \in 1 .. n |-> Track(n + 1 - i, 0)]

HistoryInit ==
    /\ now = 0
    /\ ticks = 0
    /\ audioUrlCache = [v \in VideoIds |-> NoEntry]
    /\ trackInfoCache = [v \in VideoIds |-> NoEntry]
    /\ inflight = [v \in VideoIds |-> NoTask]
    /\ eventSet = {}
    /\ tasks = [t \in TaskIds |-> IdleTask]
    /\ ntasks = 0
    /\ calls = 0
    /\ relatedCache = [v \in VideoIds |-> NoEntry]
    /\ rtasks = <<>>
    /\ rcalls = 0
    /\ reqs = <<>>
    /\ oplog = <<>>
    /\ \E n \in {0, HISTORY_CAP - 1} :
          /\ plays = [i \in 1 .. n |-> i]
          /\ users = [u \in Usernames |-> [EmptyUser EXCEPT !.history = PlayedUpTo(n)]]

PlaysMade ==
    IF Len(plays) >= HISTORY_CAP - 1 THEN Len(plays) - (HISTORY_CAP - 1) ELSE Len(plays)

RecordPlayCall(u, id) ==
    /\ PlaysMade < MaxPlays
    /\ users' = [users EXCEPT ![u].history = RecordPlay(@, Track(id, 0))]
    /\ plays' = Append(plays, id)
    /\ UNCHANGED <<now, ticks, streamVars, relatedVars, storeVars>>

HistoryNext == \E u \in Usernames, id \in PlayIds : RecordPlayCall(u, id)

SpecHistory == HistoryInit /\ [][HistoryNext]_vars

(* The position of the most recent play of id. *)
LastPlay(id) ==
    CHOOSE k \in 1 .. Len(plays) :
        plays[k] = id /\ \A j \in (k + 1) .. Len(plays) : plays[j] # id

(* C10: the history holds the distinct played ids, most recently played first,
   truncated to the 200 most recent; plays of 1, 2, 1, 200 give 200, 1, 2. *)
C10_HistoryMostRecentFirst ==
    LET h == users["alice"].history
        ids == {plays[k] : k \in 1 .. Len(plays)}
        last == [x \in ids |-> LastPlay(x)]
        kept == {h[i].id : i \in 1 .. Len(h)}
    IN  /\ Len(h) = Min(HISTORY_CAP, Cardinality(ids))
        /\ kept \subseteq ids
        /\ \A i \in 1 .. Len(h) - 1 : last[h[i].id] > last[h[i + 1].id]
        /\ Len(plays) > 0 => h[1].id = plays[Len(plays)]
        /\ \A x \in ids \ kept : last[x] < last[h[Len(h)].id]
        /\ plays = <<1, 2, 1, HISTORY_CAP>> =>
              h = <<Track(HISTORY_CAP, 0), Track(1, 0), Track(2, 0)>>

(* 201 distinct ids played, then the oldest kept id played again: id 1 was
   evicted at the 201st, id 2 moved to the front. *)
C10_Witness ==
    LET h == users["alice"].history
    IN  /\ Len(plays) = HISTORY_CAP + 2
        /\ plays[HISTORY_CAP] = HISTORY_CAP
        /\ plays[HISTORY_CAP + 1] = HISTORY_CAP + 1
        /\ plays[HISTORY_CAP + 2] = 2
        /\ Len(h) = HISTORY_CAP
        /\ h[1].id = 2 /\ h[2].id = HISTORY_CAP + 1 /\ h[HISTORY_CAP].id = 3
        /\ \A i \in 1 .. Len(h) : h[i].id # 1

-----------------------------------------------------------------------------
(* Liked list and playlists: handlers with no await between load_user and
   save_user.  Each handler is an operator from the loaded UserRecord to the
   record it leaves in `data`, whether it reaches save_user, and the status of
   the response. *)

LIKED_CAP == 500

Saved(rec) == [rec |-> rec, saved |-> TRUE, status |-> 200]

(* `raise HTTPException(status_code=404, ...)` before any save_user *)
NotFoundAfterSave(data) == [rec |-> data, saved |-> TRUE, status |-> 404]

NotFound(data) == [rec |-> data, saved |-> FALSE, status |-> 404]

Contains(s, x) == \E i \in 1 .. Len(s) : s[i] = x

(* like_track: `if video_id not in liked: liked.insert(0, video_id)`, then
   `liked[:500]` *)
LikeTrackAlwaysInserts(data, id) ==
    Saved([data EXCEPT !.liked = Take(<<id>> \o @, LIKED_CAP)])

LikeTrack(data, id) ==
    Saved([data EXCEPT
              !.liked = Take(IF Contains(@, id) THEN @ ELSE <<id>> \o @, LIKED_CAP)])

(* unlike_track: `[v for v in liked if v != video_id]` *)
UnlikeTrack(data, id) ==
    Saved([data EXCEPT !.liked = SelectSeq(@, LAMBDA v : v # id)])

(* `data.get("playlists", {}).get(playlist_id)`, `if not pl`: a stored playlist
   is a dict with a name, so it is falsy only when it is missing *)
HasPlaylist(data, pid) == pid \in DOMAIN data.playlists

(* create_playlist: pid is the token drawn by secrets.token_urlsafe *)
CreatePlaylist(data, pid, name, t) ==
    Saved([data EXCEPT
              !.playlists = (pid :> [name |-> name, tracks |-> <<>>, created_at |-> t])
                            @@ @])

(* delete_playlist *)
DeletePlaylist(data, pid) ==
    IF ~HasPlaylist(data, pid) THEN NotFound(data)
    ELSE Saved([data EXCEPT
                   !.playlists = [q \in (DOMAIN @) \ {pid} |-> @[q]]])

(* rename_playlist *)
RenamePlaylist(data, pid, name) ==
    IF ~HasPlaylist(data, pid) THEN NotFound(data)
    ELSE Saved([data EXCEPT !.playlists[pid].name = name])

(* add_to_playlist: append unless a stored track has the id of the given one *)
AddToPlaylistNoDedup(data, pid, track) ==
    IF ~HasPlaylist(data, pid) THEN NotFound(data)
    ELSE Saved([data EXCEPT !.playlists[pid].tracks = Append(@, track)])

AddToPlaylist(data, pid, track) ==
    IF ~HasPlaylist(data, pid) THEN NotFound(data)
    ELSE Saved([data EXCEPT
                   !.playlists[pid].tracks =
                       IF \E i \in 1 .. Len(@) : @[i].id = track.id
                       THEN @ ELSE Append(@, track)])

(* remove_from_playlist *)
RemoveFromPlaylist(data, pid, id) ==
    IF ~HasPlaylist(data, pid) THEN NotFound(data)
    ELSE Saved([data EXCEPT
                   !.playlists[pid].tracks = SelectSeq(@, LAMBDA t : t.id # id)])

(* `track_map = {t["id"]: t for t in tracks}`: the last track stored under an
   id is the one the map keeps *)
TrackMap(tracks) ==
    [id \in {tracks[i].id : i \in 1 .. Len(tracks)} |->
        LET last == CHOOSE i \in 1 .. Len(tracks) :
                        /\ tracks[i].id = id
                        /\ \A j \in (i + 1) .. Len(tracks) : tracks[j].id # id
        IN  tracks[last]]

(* `[track_map[tid] for tid in track_ids if tid in track_map]` *)
ReorderedKeepsUnknown(tracks, trackIds) ==
    LET trackMap == TrackMap(tracks)
    IN  [i \in 1 .. Len(trackIds) |->
            IF trackIds[i] \in DOMAIN trackMap THEN trackMap[trackIds[i]]
            ELSE Track(trackIds[i], 0)]

Reordered(tracks, trackIds) ==
    LET trackMap == TrackMap(tracks)
        known == SelectSeq(trackIds, LAMBDA tid : tid \in DOMAIN trackMap)
    IN  [i \in 1 .. Len(known) |-> trackMap[known[i]]]

(* reorder_playlist *)
ReorderPlaylist(data, pid, trackIds) ==
    IF ~HasPlaylist(data, pid) THEN NotFound(data)
    ELSE Saved([data EXCEPT !.playlists[pid].tracks = Reordered(@, trackIds)])

(* ---- cached_search ---- *)

SEARCH_CACHE_TTL == 60 * 30
SEARCH_CACHE_CAP == 50

(* A query is a word in one of several spellings (case, surrounding blanks);
   `query.lower().strip()` maps every spelling of a word to one key. *)
SearchKey(query) == query[1]

(* search_cache is kept as the sequence of its entries in dict order. *)
CacheIndex(cache, key) ==
    IF \E i \in 1 .. Len(cache) : cache[i].key = key
    THEN CHOOSE i \in 1 .. Len(cache) : cache[i].key = key
    ELSE 0

(* `cache[key] = {...}`: an existing key keeps its place in the dict *)
CachePut(cache, entry) ==
    LET i == CacheIndex(cache, entry.key)
    IN  IF i = 0 THEN Append(cache, entry) ELSE [cache EXCEPT ![i] = entry]

(* `sorted(cache.items(), key=lambda x: x[1]["ts"])`: ascending in ts,
   entries of equal ts in dict order *)
SortedByTs(cache) == SortSeq(cache, LAMBDA a, b : a.ts < b.ts)

(* `if len(cache) > 50: cache = dict(sorted(...)[-50:])` *)
CappedKeepsOldest(cache) ==
    IF Len(cache) > SEARCH_CACHE_CAP
    THEN SubSeq(SortedByTs(cache), 1, SEARCH_CACHE_CAP)
    ELSE cache

Capped(cache) ==
    IF Len(cache) > SEARCH_CACHE_CAP
    THEN SubSeq(SortedByTs(cache), Len(cache) - SEARCH_CACHE_CAP + 1, Len(cache))
    ELSE cache

(* `data["search_cache"] = cache; save_user(username, data)`: data is the
   record loaded before the await, current the record persisted at the save *)
SearchSavesCurrent(data, current, cache) == [current EXCEPT !.search_cache = cache]

SearchSaves(data, current, cache) == [data EXCEPT !.search_cache = cache]

(* cached_search after `await _run(_sync_search, query)` returned results *)
CachedSearchResume(data, current, query, results, t) ==
    Saved(SearchSaves(data, current,
              Capped(CachePut(data.search_cache,
                  [key |-> SearchKey(query), ts |-> t, results |-> results]))))

(* The handlers that await between load_user and save_user. *)
SuspendsAlways(op) == TRUE

Suspends(op) == op.op = "search"

(* The handler of a request, applied to the record it loaded at time t. *)
Handle(op, data, t) ==
    CASE op.op = "record_play" ->
             Saved([data EXCEPT !.history = RecordPlay(@, op.track)])
      [] op.op = "like" -> LikeTrack(data, op.id)
      [] op.op = "unlike" -> UnlikeTrack(data, op.id)
      [] op.op = "create" -> CreatePlaylist(data, op.pid, op.name, t)
      [] op.op = "delete" -> DeletePlaylist(data, op.pid)
      [] op.op = "rename" -> RenamePlaylist(data, op.pid, op.name)
      [] op.op = "add" -> AddToPlaylist(data, op.pid, op.track)
      [] op.op = "remove" -> RemoveFromPlaylist(data, op.pid, op.id)
      [] op.op = "reorder" -> ReorderPlaylist(data, op.pid, op.ids)

(* A request in reqs: the user, the operation, where its coroutine stands, the
   record it loaded, its response, and for a request of /api/suggestions
   (via) what suggestions did before it entered cached_search. *)
NoResults == -1
NoSuggestion == [history |-> <<>>, related |-> "no suggestion"]

(* One request served from load_user to its response in a single step: the
   record is saved when the handler reaches save_user. *)
Serve(u, op) ==
    LET r == Handle(op, users[u], now)
    IN  /\ reqs' = Append(reqs, [user |-> u, op |-> op, pc |-> "done",
                                 data |-> users[u], status |-> r.status, at |-> now,
                                 results |-> NoResults, via |-> NoSuggestion])
        /\ users' = IF r.saved THEN [users EXCEPT ![u] = r.rec] ELSE users
        /\ oplog' = IF r.saved THEN Append(oplog, Len(reqs) + 1) ELSE oplog
        /\ UNCHANGED <<now, ticks, streamVars, relatedVars, plays>>

(* A request whose handler awaits after load_user: the coroutine keeps the
   record it loaded. *)
Suspend(u, op) ==
    /\ reqs' = Append(reqs, [user |-> u, op |-> op, pc |-> "suspended",
                             data |-> users[u], status |-> 0, at |-> now,
                             results |-> NoResults, via |-> NoSuggestion])
    /\ UNCHANGED <<now, ticks, streamVars, relatedVars, plays, users, oplog>>

Request(u, op) == IF Suspends(op) THEN Suspend(u, op) ELSE Serve(u, op)

(* The coroutine of request i resumes after its await and runs to its
   response. *)
Resume(i, results) ==
    /\ i \in 1 .. Len(reqs)
    /\ reqs[i].pc = "suspended"
    /\ LET q == reqs[i]
           r == IF q.op.op = "search"
                THEN CachedSearchResume(q.data, users[q.user], q.op.query, results, now)
                ELSE Handle(q.op, q.data, now)
       IN  /\ reqs' = [reqs EXCEPT ![i].pc = "done", ![i].status = r.status,
                                   ![i].at = now, ![i].results = results]
           /\ users' = IF r.saved THEN [users EXCEPT ![q.user] = r.rec] ELSE users
           /\ oplog' = IF r.saved THEN Append(oplog, i) ELSE oplog
    /\ UNCHANGED <<now, ticks, streamVars, relatedVars, plays>>

(* `entry and (time.time() - entry["ts"]) < SEARCH_CACHE_TTL` *)
SearchHit(data, query, t) ==
    LET i == CacheIndex(data.search_cache, SearchKey(query))
    IN  i # 0 /\ IsFresh(data.search_cache[i], t, SEARCH_CACHE_TTL)

(* `return entry["results"]` *)
CachedResults(data, query) ==
    data.search_cache[CacheIndex(data.search_cache, SearchKey(query))].results

(* cached_search up to its return on a hit, or up to its await on a miss *)
SearchBegin(u, query) ==
    IF SearchHit(users[u], query, now)
    THEN /\ reqs' = Append(reqs, [user |-> u, op |-> [op |-> "search", query |-> query],
                                  pc |-> "hit", data |-> users[u], status |-> 200,
                                  at |-> now, results |-> CachedResults(users[u], query),
                                  via |-> NoSuggestion])
         /\ UNCHANGED <<now, ticks, streamVars, relatedVars, plays, users, oplog>>
    ELSE Request(u, [op |-> "search", query |-> query])

(* _sync_search raises: the exception leaves cached_search before the save *)
SearchRaises(i) ==
    /\ i \in 1 .. Len(reqs)
    /\ reqs[i].pc = "suspended"
    /\ reqs[i].op.op = "search"
    /\ reqs' = [reqs EXCEPT ![i].pc = "raised", ![i].status = 500, ![i].at = now]
    /\ UNCHANGED <<now, ticks, streamVars, relatedVars, plays, users, oplog>>

-----------------------------------------------------------------------------
(* Playlist routes, one request after another *)

MaxPlaylistOps == 2

PlaylistIds == {"p1", "p2"}
PlaylistNames == {"mix", "gym"}
PlaylistTrackIds == {"A", "B", "C", "Z"}

(* Request bodies of add_to_playlist: one track per id, and a second track
   with the id A whose other fields differ. *)
PlaylistTracks == {Track(v, 0) : v \in PlaylistTrackIds} \cup {Track("A", 1)}

(* Request bodies of reorder_playlist: the lists of at most two ids, and two
   lists of three: one naming a foreign id, one naming an id twice. *)
ReorderLists ==
    UNION {[1 .. n -> PlaylistTrackIds] : n \in 0 .. 2}
        \cup {<<"C", "A", "Z">>, <<"A", "B", "A">>}

UserWithPlaylist ==
    [EmptyUser EXCEPT
        !.playlists = "p1" :> [name |-> "mix", created_at |-> 0,
                               tracks |-> <<Track("A", 0), Track("B", 0), Track("C", 0)>>]]

(* alice has no playlist, or the playlist p1 with the tracks A, B, C in the
   state reached by create_playlist and three add_to_playlist. *)
PlaylistInit ==
    /\ now = 0
    /\ ticks = 0
    /\ audioUrlCache = [v \in VideoIds |-> NoEntry]
    /\ trackInfoCache = [v \in VideoIds |-> NoEntry]
    /\ inflight = [v \in VideoIds |-> NoTask]
    /\ eventSet = {}
    /\ tasks = [t \in TaskIds |-> IdleTask]
    /\ ntasks = 0
    /\ calls = 0
    /\ relatedCache = [v \in VideoIds |-> NoEntry]
    /\ rtasks = <<>>
    /\ rcalls = 0
    /\ plays = <<>>
    /\ reqs = <<>>
    /\ oplog = <<>>
    /\ \E rec \in {EmptyUser, UserWithPlaylist} : users = [u \in Usernames |-> rec]

CreatePlaylistCall(u, name, pid) ==
    /\ pid \notin DOMAIN users[u].playlists
    /\ Request(u, [op |-> "create", pid |-> pid, name |-> name])

DeletePlaylistCall(u, pid) ==
    Request(u, [op |-> "delete", pid |-> pid])

RenamePlaylistCall(u, pid, name) ==
    Request(u, [op |-> "rename", pid |-> pid, name |-> name])

AddToPlaylistCall(u, pid, track) ==
    Request(u, [op |-> "add", pid |-> pid, track |-> track])

RemoveFromPlaylistCall(u, pid, id) ==
    Request(u, [op |-> "remove", pid |-> pid, id |-> id])

ReorderPlaylistCall(u, pid, trackIds) ==
    Request(u, [op |-> "reorder", pid |-> pid, ids |-> trackIds])

PlaylistNext ==
    /\ Len(reqs) < MaxPlaylistOps
    /\ \E u \in Usernames, pid \in PlaylistIds :
        \/ \E name \in PlaylistNames : CreatePlaylistCall(u, name, pid)
        \/ DeletePlaylistCall(u, pid)
        \/ \E name \in PlaylistNames : RenamePlaylistCall(u, pid, name)
        \/ \E track \in PlaylistTracks : AddToPlaylistCall(u, pid, track)
        \/ \E id \in PlaylistTrackIds : RemoveFromPlaylistCall(u, pid, id)
        \/ \E trackIds \in ReorderLists : ReorderPlaylistCall(u, pid, trackIds)

SpecPlaylist == PlaylistInit /\ [][PlaylistNext]_vars

(* The request served by the step, when the step serves one. *)
Served == Len(reqs') = Len(reqs) + 1 /\ reqs'[Len(reqs')].pc = "done"
LastReq == reqs[Len(reqs)]
Ids(tracks) == [i \in 1 .. Len(tracks) |-> tracks[i].id]
IsMember(data, pid, id) ==
    HasPlaylist(data, pid) /\ Contains(Ids(data.playlists[pid].tracks), id)

(* C13: adding to an existing playlist a track whose id is already a member
   leaves the playlist's track sequence and the rest of the UserRecord
   unchanged. *)
C13_AddMemberIsNoOp ==
    [][\A u \in Usernames :
          LET q == reqs'[Len(reqs')]
          IN  (/\ Served /\ q.user = u /\ q.op.op = "add"
               /\ IsMember(users[u], q.op.pid, q.op.track.id))
              => users'[u] = users[u] /\ q.status = 200]_vars

(* A track with the id A and other fields than the stored one was added to
   A, B, C: the stored track was kept. *)
C13_Witness ==
    /\ Len(reqs) > 0
    /\ LastReq.op.op = "add" /\ LastReq.op.pid = "p1"
    /\ LastReq.op.track = Track("A", 1)
    /\ IsMember(LastReq.data, "p1", "A")
    /\ users["alice"].playlists["p1"].tracks =
           <<Track("A", 0), Track("B", 0), Track("C", 0)>>

(* C14: reordering an existing playlist replaces its tracks by the stored
   tracks of the requested ids that are members, in the requested order;
   A, B, C reordered with C, A or with C, A, Z gives C, A. *)
C14_ReorderKeepsRequestedMembers ==
    [][\A u \in Usernames :
          LET q == reqs'[Len(reqs')]
              old == users[u].playlists[q.op.pid].tracks
              new == users'[u].playlists[q.op.pid].tracks
              wanted == SelectSeq(q.op.ids, LAMBDA id : Contains(Ids(old), id))
          IN  (/\ Served /\ q.user = u /\ q.op.op = "reorder"
               /\ HasPlaylist(users[u], q.op.pid))
              => /\ q.status = 200
                 /\ Ids(new) = wanted
                 /\ \A i \in 1 .. Len(new) : Contains(old, new[i])
                 /\ (Ids(old) = <<"A", "B", "C">>
                        /\ q.op.ids \in {<<"C", "A">>, <<"C", "A", "Z">>})
                     => Ids(new) = <<"C", "A">>]_vars

(* A, B, C was reordered with C, A, Z. *)
C14_Witness ==
    /\ Len(reqs) > 0
    /\ LastReq.op.op = "reorder" /\ LastReq.op.pid = "p1"
    /\ LastReq.op.ids = <<"C", "A", "Z">>
    /\ HasPlaylist(LastReq.data, "p1")
    /\ Ids(LastReq.data.playlists["p1"].tracks) = <<"A", "B", "C">>
    /\ Ids(users["alice"].playlists["p1"].tracks) = <<"C", "A">>

(* C15: add, remove, reorder, rename and delete on a playlist id the identity
   does not have answer 404, and the persisted UserRecord is not written. *)
C15_UnknownPlaylistNotFound ==
    [][\A u \in Usernames :
          LET q == reqs'[Len(reqs')]
          IN  (/\ Served /\ q.user = u
               /\ q.op.op \in {"add", "remove", "reorder", "rename", "delete"}
               /\ ~HasPlaylist(users[u], q.op.pid))
              => /\ q.status = 404
                 /\ users' = users
                 /\ oplog' = oplog]_vars

(* alice has p1 only and a track was added to p2. *)
C15_Witness ==
    /\ Len(reqs) > 0
    /\ LastReq.op.op = "add" /\ LastReq.op.pid = "p2"
    /\ DOMAIN LastReq.data.playlists = {"p1"}
    /\ LastReq.status = 404
    /\ DOMAIN users["alice"].playlists = {"p1"}

(* C18: no playlist holds two tracks with the same id. *)
C18_PlaylistIdsUnique ==
    \A u \in Usernames : \A pid \in DOMAIN users[u].playlists :
        LET tracks == users[u].playlists[pid].tracks
        IN  \A i, j \in 1 .. Len(tracks) : tracks[i].id = tracks[j].id => i = j

-----------------------------------------------------------------------------
(* like_track and unlike_track, one request after another *)

MaxLikes == 3

LikedIds == {1, 2, LIKED_CAP, LIKED_CAP + 1}

(* The liked list after like_track of 1, 2, ..., n in this order. *)
LikedUpTo(n) == [i \in 1 .. n |-> n + 1 - i]

LikedInit ==
    /\ now = 0
    /\ ticks = 0
    /\ audioUrlCache = [v \in VideoIds |-> NoEntry]
    /\ trackInfoCache = [v \in VideoIds |-> NoEntry]
    /\ inflight = [v \in VideoIds |-> NoTask]
    /\ eventSet = {}
    /\ tasks = [t \in TaskIds |-> IdleTask]
    /\ ntasks = 0
    /\ calls = 0
    /\ relatedCache = [v \in VideoIds |-> NoEntry]
    /\ rtasks = <<>>
    /\ rcalls = 0
    /\ plays = <<>>
    /\ reqs = <<>>
    /\ oplog = <<>>
    /\ \E n \in {0, LIKED_CAP - 1} :
           users = [u \in Usernames |-> [EmptyUser EXCEPT !.liked = LikedUpTo(n)]]

LikeTrackCall(u, id) ==
    Request(u, [op |-> "like", id |-> id])

UnlikeTrackCall(u, id) ==
    Request(u, [op |-> "unlike", id |-> id])

LikedNext ==
    /\ Len(reqs) < MaxLikes
    /\ \E u \in Usernames, id \in LikedIds :
        \/ LikeTrackCall(u, id)
        \/ UnlikeTrackCall(u, id)

SpecLiked == LikedInit /\ [][LikedNext]_vars

Occurrences(s, x) == Cardinality({i \in 1 .. Len(s) : s[i] = x})

(* The last two requests are like_track of one id by one user. *)
LikedTwice ==
    /\ Len(reqs) >= 2
    /\ LastReq.op.op = "like"
    /\ reqs[Len(reqs) - 1].op = LastReq.op
    /\ reqs[Len(reqs) - 1].user = LastReq.user

(* C12 as stated: from any reachable liked list, after like(id) twice in a row
   the id occurs exactly once and is the first element; the list holds no
   duplicate and at most 500 entries. *)
C12_LikedTwiceOnceAtFront ==
    \A u \in Usernames :
        LET liked == users[u].liked
        IN  /\ Cardinality({liked[i] : i \in 1 .. Len(liked)}) = Len(liked)
            /\ Len(liked) <= LIKED_CAP
            /\ (LikedTwice /\ LastReq.user = u) =>
                   /\ Occurrences(liked, LastReq.op.id) = 1
                   /\ liked[1] = LastReq.op.id

(* C12, amended: after like(id) twice in a row the id occurs exactly once; it is
   the first element when it was not in the list before the first of the two
   calls, and otherwise the list is as it was; the list holds no duplicate and
   at most 500 entries. *)
C12_LikedTwiceOnceFrontIfNew ==
    \A u \in Usernames :
        LET liked == users[u].liked
            before == reqs[Len(reqs) - 1].data.liked
        IN  /\ Cardinality({liked[i] : i \in 1 .. Len(liked)}) = Len(liked)
            /\ Len(liked) <= LIKED_CAP
            /\ (LikedTwice /\ LastReq.user = u) =>
                   /\ Occurrences(liked, LastReq.op.id) = 1
                   /\ IF Contains(before, LastReq.op.id)
                      THEN liked = before
                      ELSE liked = Take(<<LastReq.op.id>> \o before, LIKED_CAP)

(* With 499 ids liked, id 500 was liked and then id 501 twice: the list is
   full, 501 is first and the oldest id was dropped. *)
C12_Witness ==
    /\ LikedTwice
    /\ LastReq.op.id = LIKED_CAP + 1
    /\ Len(reqs[Len(reqs) - 1].data.liked) = LIKED_CAP
    /\ Len(users["alice"].liked) = LIKED_CAP
    /\ users["alice"].liked[1] = LIKED_CAP + 1
    /\ users["alice"].liked[2] = LIKED_CAP
    /\ ~Contains(users["alice"].liked, 1)

-----------------------------------------------------------------------------
(* cached_search: concurrent searches of one user around the cap of 50 *)

MaxSearches == 3

(* The words 1, 2, 51 and 52, one of them in two spellings. *)
SearchQueries ==
    {<<1, "plain">>, <<2, "plain">>, <<SEARCH_CACHE_CAP + 1, "plain">>,
     <<SEARCH_CACHE_CAP + 1, "upper">>, <<SEARCH_CACHE_CAP + 2, "plain">>}

(* The cache after the words 1 .. n were searched one per second. *)
SearchedUpTo(n) == [i \in 1 .. n |-> [key |-> i, ts |-> i, results |-> 0]]

(* 50 words are cached; the entry of word 1 has just expired, the others are
   fresh. *)
SearchInit ==
    /\ ticks = 0
    /\ audioUrlCache = [v \in VideoIds |-> NoEntry]
    /\ trackInfoCache = [v \in VideoIds |-> NoEntry]
    /\ inflight = [v \in VideoIds |-> NoTask]
    /\ eventSet = {}
    /\ tasks = [t \in TaskIds |-> IdleTask]
    /\ ntasks = 0
    /\ calls = 0
    /\ relatedCache = [v \in VideoIds |-> NoEntry]
    /\ rtasks = <<>>
    /\ rcalls = 0
    /\ plays = <<>>
    /\ reqs = <<>>
    /\ oplog = <<>>
    /\ now = SEARCH_CACHE_TTL + 1
    /\ users = [u \in Usernames |->
                   [EmptyUser EXCEPT
                       !.search_cache = SearchedUpTo(SEARCH_CACHE_CAP)]]

SearchNext ==
    \/ \E u \in Usernames, query \in SearchQueries :
           Len(reqs) < MaxSearches /\ SearchBegin(u, query)
    \/ \E i \in 1 .. Len(reqs) : Resume(i, i)
    \/ \E i \in 1 .. Len(reqs) : SearchRaises(i)

SpecSearch == SearchInit /\ [][SearchNext]_vars

Entries(cache) == {cache[i] : i \in 1 .. Len(cache)}

(* C11: a search that misses and saves leaves at most 50 entries: its own
   entry and, of the entries it loaded, those with the latest insertion
   times, so that every dropped entry was inserted no later than every kept
   one; a hit does not change any insertion time. *)
C11_SearchCacheCapped ==
    [][/\ \A i \in 1 .. Len(reqs) :
            (reqs[i].pc = "suspended" /\ reqs'[i].pc = "done"
                /\ reqs[i].op.op = "search") =>
            LET q == reqs[i]
                key == SearchKey(q.op.query)
                kept == Entries(users'[q.user].search_cache)
                cands == {e \in Entries(q.data.search_cache) : e.key # key}
                             \cup {[key |-> key, ts |-> now, results |-> i]}
            IN  /\ Len(users'[q.user].search_cache) <= SEARCH_CACHE_CAP
                /\ Cardinality(kept) = Min(SEARCH_CACHE_CAP, Cardinality(cands))
                /\ Cardinality(kept) = Len(users'[q.user].search_cache)
                /\ kept \subseteq cands
                /\ [key |-> key, ts |-> now, results |-> i] \in kept
                /\ \A e \in cands \ kept : \A k \in kept : e.ts <= k.ts
       /\ (Len(reqs') = Len(reqs) + 1 /\ reqs'[Len(reqs')].pc = "hit") =>
              users' = users]_vars

(* With 50 words cached, word 2 was served from the cache, then word 51 was
   searched: 50 entries are left and word 1, the earliest inserted, is the one
   dropped; word 2, though just used, would be the next. *)
C11_Witness ==
    /\ Len(reqs) = 2
    /\ SearchKey(reqs[1].op.query) = 2 /\ reqs[1].pc = "hit"
    /\ SearchKey(reqs[2].op.query) = SEARCH_CACHE_CAP + 1 /\ reqs[2].pc = "done"
    /\ Len(reqs[2].data.search_cache) = SEARCH_CACHE_CAP
    /\ Len(users["alice"].search_cache) = SEARCH_CACHE_CAP
    /\ CacheIndex(users["alice"].search_cache, 1) = 0
    /\ users["alice"].search_cache[1].key = 2
    /\ users["alice"].search_cache[1].ts = 2
    /\ CacheIndex(users["alice"].search_cache, SEARCH_CACHE_CAP + 1) # 0

-----------------------------------------------------------------------------
(* Concurrent requests of one user on the per-user store *)

MaxStoreOps == 3

(* stream_audio: `record_play(username, info)` after fetch_stream returned *)
RecordPlayServe(u, track) == Request(u, [op |-> "record_play", track |-> track])

StoreNext ==
    \/ /\ Len(reqs) < MaxStoreOps
       /\ \E u \in Usernames :
           \/ \E v \in VideoIds : RecordPlayServe(u, Track(v, 0))
           \/ \E v \in VideoIds : LikeTrackCall(u, v)
           \/ UnlikeTrackCall(u, "A")
           \/ CreatePlaylistCall(u, "mix", "p1")
           \/ DeletePlaylistCall(u, "p1")
           \/ RenamePlaylistCall(u, "p1", "gym")
           \/ \E v \in VideoIds : AddToPlaylistCall(u, "p1", Track(v, 0))
           \/ RemoveFromPlaylistCall(u, "p1", "A")
           \/ ReorderPlaylistCall(u, "p1", <<"B", "A">>)
           \/ SearchBegin(u, <<1, "plain">>)
    \/ \E i \in 1 .. Len(reqs) : Resume(i, i)
    \/ \E i \in 1 .. Len(reqs) : SearchRaises(i)

SpecStore == Init /\ [][StoreNext]_vars

(* C19: a search that missed saves the record it loaded before its await
   with only search_cache replaced, whatever was saved for the identity in
   between: the last write wins on the whole record. *)
C19_SearchSavesLoadedRecord ==
    [][\A i \in 1 .. Len(reqs) :
          (reqs[i].pc = "suspended" /\ reqs'[i].pc = "done"
              /\ reqs[i].op.op = "search") =>
          LET q == reqs[i]
          IN  /\ users'[q.user].history = q.data.history
              /\ users'[q.user].liked = q.data.liked
              /\ users'[q.user].playlists = q.data.playlists]_vars

(* A search missed and was suspended, like_track of A was served and saved,
   then the search saved: A is not in the liked list any more. *)
C19_Witness ==
    /\ Len(reqs) >= 2
    /\ reqs[1].op.op = "search" /\ reqs[1].pc = "done"
    /\ reqs[2].op = [op |-> "like", id |-> "A"] /\ reqs[2].status = 200
    /\ oplog = <<2, 1>>
    /\ users["alice"].liked = <<>>
    /\ Len(users["alice"].search_cache) = 1

Orders(n) == {f \in [1 .. n -> 1 .. n] : \A i, j \in 1 .. n : f[i] = f[j] => i = j}

(* The record after the first k requests of the order f, served one after
   another from the empty record. *)
RECURSIVE Replay(_, _)
Replay(f, k) ==
    IF k = 0 THEN EmptyUser
    ELSE Handle(reqs[f[k]].op, Replay(f, k - 1), reqs[f[k]].at).rec

(* C20: record_play, like, unlike and the playlist operations are never
   suspended between load and save, and when only such requests were made the
   UserRecord is the one obtained by serving them one after another in some
   order. *)
C20_AtomicOpsSerializable ==
    /\ \A i \in 1 .. Len(reqs) :
           reqs[i].pc = "suspended" => reqs[i].op.op = "search"
    /\ (\A i \in 1 .. Len(reqs) : reqs[i].op.op # "search" /\ reqs[i].pc = "done")
           => \E f \in Orders(Len(reqs)) : users["alice"] = Replay(f, Len(reqs))

(* create_playlist, add_to_playlist of A and like_track of A were served:
   all three updates are in the record. *)
C20_Witness ==
    /\ Len(reqs) = 3
    /\ \A i \in 1 .. 3 : reqs[i].pc = "done" /\ reqs[i].status = 200
    /\ {reqs[i].op.op : i \in 1 .. 3} = {"create", "add", "like"}
    /\ users["alice"].liked = <<"A">>
    /\ "p1" \in DOMAIN users["alice"].playlists
    /\ users["alice"].playlists["p1"].tracks = <<Track("A", 0)>>

-----------------------------------------------------------------------------
(* suggestions *)

MaxSuggestions == 3

(* A history entry: the track dict stored by record_play; channel is "" when
   the dict has no channel. *)
HistoryTrack(v, channel) ==
    [id |-> v, info |-> 0, channel |-> channel, title |-> v \o " title"]

TrendingQuery == <<"trending music 2025", "plain">>

(* `channel = seed.get("channel") or "music"`, query `f"{channel} music"` *)
ChannelQuery(seed) ==
    <<(IF seed.channel = "" THEN "music" ELSE seed.channel) \o " music", "plain">>

(* `seed = history[0]` *)
SeedOldest(history) == history[Len(history)]

SeedOf(history) == history[1]

(* `if not related:` *)
NeedsChannelSearchAlways(related) == TRUE

NeedsChannelSearch(related) == related = <<>>

(* cached_search called by suggestions, up to its return on a hit or its
   await on a miss. *)
SearchEntered(u, query, via) ==
    [user |-> u, op |-> [op |-> "search", query |-> query],
     pc |-> IF SearchHit(users[u], query, now) THEN "hit" ELSE "suspended",
     data |-> users[u],
     status |-> IF SearchHit(users[u], query, now) THEN 200 ELSE 0,
     at |-> now,
     results |-> IF SearchHit(users[u], query, now)
                 THEN CachedResults(users[u], query) ELSE NoResults,
     via |-> via]

(* suggestions after fetch_related returned related: the answer, or the call
   of cached_search for the channel of the seed. *)
AfterRelated(u, via, source, related) ==
    LET v == [via EXCEPT !.related = source, !.relatedList = related]
    IN  IF NeedsChannelSearch(related)
        THEN SearchEntered(u, ChannelQuery(via.seed), v)
        ELSE [user |-> u, op |-> [op |-> "suggestions"], pc |-> "done",
              data |-> users[u], status |-> 200, at |-> now,
              results |-> NoResults, via |-> v]

(* suggestions up to its first await or, when the caches answer, its return *)
SuggestBegin(u) ==
    LET history == users[u].history
        trending == [history |-> history, seed |-> HistoryTrack("none", ""),
                     related |-> "none", relatedList |-> <<>>,
                     basedOn |-> "trending"]
    IN  /\ IF history = <<>>
           THEN /\ reqs' = Append(reqs, SearchEntered(u, TrendingQuery, trending))
                /\ rcalls' = rcalls
           ELSE LET seed == SeedOf(history)
                    via == [trending EXCEPT !.seed = seed, !.basedOn = seed.title]
                IN  IF IsFresh(relatedCache[seed.id], now, RELATED_CACHE_TTL)
                    THEN /\ reqs' = Append(reqs, AfterRelated(u, via, "hit",
                                               relatedCache[seed.id].related))
                         /\ rcalls' = rcalls
                    ELSE /\ reqs' = Append(reqs,
                                 [user |-> u, op |-> [op |-> "suggestions"],
                                  pc |-> "related", data |-> users[u], status |-> 0,
                                  at |-> now, results |-> NoResults,
                                  via |-> [via EXCEPT !.related = "calling"]])
                         /\ rcalls' = rcalls + 1
        /\ UNCHANGED <<now, ticks, streamVars, users, relatedCache, rtasks, plays, oplog>>

(* _sync_related returns a list to the fetch_related called by suggestions *)
SuggestRelatedReturns(i, related) ==
    /\ reqs[i].pc = "related"
    /\ relatedCache' = RelatedCachePut(reqs[i].via.seed.id, related, 0)
    /\ reqs' = [reqs EXCEPT ![i] = AfterRelated(reqs[i].user, reqs[i].via, "own", related)]
    /\ UNCHANGED <<now, ticks, streamVars, users, rtasks, rcalls, plays, oplog>>

(* _sync_related raises DownloadError *)
SuggestRelatedDownloadError(i) ==
    /\ reqs[i].pc = "related"
    /\ relatedCache' = CacheAfterDownloadError(reqs[i].via.seed.id, 0)
    /\ reqs' = [reqs EXCEPT ![i] = AfterRelated(reqs[i].user, reqs[i].via, "own", <<>>)]
    /\ UNCHANGED <<now, ticks, streamVars, users, rtasks, rcalls, plays, oplog>>

(* _sync_related raises anything else: the exception leaves suggestions *)
SuggestRelatedRaises(i) ==
    /\ reqs[i].pc = "related"
    /\ reqs' = [reqs EXCEPT ![i].pc = "raised", ![i].status = 500, ![i].at = now]
    /\ UNCHANGED <<now, ticks, streamVars, users, relatedVars, plays, oplog>>

(* alice has played nothing, or A of channel c1 after B, or B of no channel
   after A. *)
SuggestHistories ==
    {<<>>,
     <<HistoryTrack("A", "c1"), HistoryTrack("B", "c2")>>,
     <<HistoryTrack("B", ""), HistoryTrack("A", "c1")>>}

SuggestInit ==
    /\ now = 0
    /\ ticks = 0
    /\ audioUrlCache = [v \in VideoIds |-> NoEntry]
    /\ trackInfoCache = [v \in VideoIds |-> NoEntry]
    /\ inflight = [v \in VideoIds |-> NoTask]
    /\ eventSet = {}
    /\ tasks = [t \in TaskIds |-> IdleTask]
    /\ ntasks = 0
    /\ calls = 0
    /\ relatedCache = [v \in VideoIds |-> NoEntry]
    /\ rtasks = <<>>
    /\ rcalls = 0
    /\ plays = <<>>
    /\ reqs = <<>>
    /\ oplog = <<>>
    /\ \E history \in SuggestHistories :
           users = [u \in Usernames |-> [EmptyUser EXCEPT !.history = history]]

SuggestNext ==
    \/ \E u \in Usernames : Len(reqs) < MaxSuggestions /\ SuggestBegin(u)
    \/ \E i \in 1 .. Len(reqs) : \E related \in RelatedLists(i) :
           SuggestRelatedReturns(i, related)
    \/ \E i \in 1 .. Len(reqs) : SuggestRelatedDownloadError(i)
    \/ \E i \in 1 .. Len(reqs) : SuggestRelatedRaises(i)
    \/ \E i \in 1 .. Len(reqs) : Resume(i, i)
    \/ \E i \in 1 .. Len(reqs) : SearchRaises(i)

SpecSuggest == SuggestInit /\ [][SuggestNext]_vars

(* C16: with an empty history suggestions searches the trending query, tags
   the answer "trending" and makes no related lookup; otherwise it looks up
   the related list of the most recent history entry, answers with it when it
   is not empty and then makes no search, and when it is empty searches
   "<channel> music" for the channel of that entry. *)
C16_SuggestionsFallbacks ==
    /\ \A i \in 1 .. Len(reqs) :
        LET q == reqs[i]
            history == q.via.history
            answered == q.pc \in {"done", "hit"}
        IN  IF history = <<>>
            THEN /\ q.via.related = "none"
                 /\ q.op = [op |-> "search", query |-> TrendingQuery]
                 /\ q.via.basedOn = "trending"
                 /\ q.pc = "hit" => q.results = CachedResults(q.data, TrendingQuery)
                 /\ q.pc = "done" => q.results = i
            ELSE /\ q.via.seed = history[1]
                 /\ q.via.related \in {"calling", "hit", "own"}
                 /\ q.via.basedOn = history[1].title
                 /\ q.via.related = "calling" <=> q.op.op = "suggestions" /\ ~answered
                 /\ q.via.related \in {"hit", "own"} =>
                        (q.op.op = "search" <=> q.via.relatedList = <<>>)
                 /\ q.op.op = "search" =>
                        /\ q.op.query[1] =
                               (IF history[1].channel = "" THEN "music music"
                                ELSE history[1].channel \o " music")
                        /\ q.pc = "hit" => q.results = CachedResults(q.data, q.op.query)
                        /\ q.pc = "done" => q.results = i
                 /\ (answered /\ q.op.op = "suggestions") => q.via.relatedList # <<>>
    /\ rcalls = Cardinality({i \in 1 .. Len(reqs) :
                                reqs[i].via.related \in {"calling", "own"}})

(* A was played last and its related list came back empty: the search of
   "c1 music" was made and answered. *)
C16_Witness ==
    /\ Len(reqs) >= 1
    /\ reqs[1].via.history = <<HistoryTrack("A", "c1"), HistoryTrack("B", "c2")>>
    /\ reqs[1].via.related = "own" /\ reqs[1].via.relatedList = <<>>
    /\ reqs[1].op = [op |-> "search", query |-> <<"c1 music", "plain">>]
    /\ reqs[1].pc = "done"
    /\ users["alice"].search_cache[1].key = "c1 music"

====
